---- MODULE Spec2Model ----
(***************************************************************************)
(* A model of gosling.py: the agent loop (call_llm under its retry         *)
(* decorator), the tool call dispatcher (handle_tool_calls over            *)
(* run_shell_command) and the transcript retention policy (clean_messages).*)
(*                                                                         *)
(* Python strings are modelled as sequences of string pieces, so that      *)
(* startswith / endswith / split / replace are computed on them.           *)
(* A transcript is a sequence of turns; a turn's content is a record       *)
(* [kind, text, blocks] with kind "none" (key absent), "str" or "list".    *)
(***************************************************************************)
EXTENDS Integers, Sequences, FiniteSets, TLC

VARIABLES
    messages,     \* the transcript: the one list object shared by main and call_llm
    pc,           \* position of the run: awaiting / dispatching / done / aborted
    attempt,      \* tenacity's attempt number of the single call_llm invocation
    pending,      \* the assistant message whose tool calls are being dispatched
    answer,       \* content of the returned response's assistant message
    file,         \* contents of messages.json
    sent,         \* the transcript handed to the backend on the latest backend call
    deviceLog,    \* every adb shell command issued so far, in order
    lastEvent,    \* what the latest step of the run was
    rounds,       \* backend responses that carried tool calls
    cycles,       \* invocations of handle_tool_calls
    requested,    \* tool calls carried by backend responses so far
    response,     \* the tool_calls field of the latest response's assistant message
    backendCalls, \* backend calls made so far
    callFails,    \* consecutive failed attempts of the current backend call
    prevSent,     \* the transcript handed to the backend on the backend call before
    prevEvent,    \* what the step before the latest was
    retryCause,   \* what raised the exception that tenacity last retried on
    batch,        \* dispatcher study: the tool calls given to handle_tool_calls
    outcomes,     \* dispatcher study: what the transport does for each call
    snapshot,     \* dispatcher study: what the transport does for the snapshot
    dispatched,   \* dispatcher study: the outcome of handle_tool_calls
    history       \* retention study: the transcripts clean_messages was applied to

vars == <<messages, pc, attempt, pending, answer, file, sent, deviceLog, lastEvent,
          rounds, cycles, requested, response, backendCalls, callFails, prevSent, prevEvent,
          retryCause, batch, outcomes, snapshot, dispatched, history>>

loopVars == <<pc, attempt, pending, answer, file, sent, deviceLog, lastEvent,
              rounds, cycles, requested, response, backendCalls, callFails, prevSent,
              prevEvent, retryCause>>
dispatchVars == <<batch, outcomes, snapshot, dispatched>>
pruneVars == <<history>>

----------------------------------------------------------------------------
(* Bounds of the model *)

MaxTurns == 4       \* retention study: longest transcript drawn
MaxBatch == 2       \* dispatcher study: longest batch drawn
MaxRounds == 3      \* agent loop: tool-call responses the backend may give
MaxLoopBatch == 2   \* agent loop: longest batch the backend may request
MaxPrunes == 2      \* retention study: applications of clean_messages in a row

----------------------------------------------------------------------------
(* Strings *)

UI_HIERARCHY_PROMPT == <<"\nHere's the current UI hierarchy:\n">>

StartsWith(s, prefix) ==
    /\ Len(s) >= Len(prefix)
    /\ SubSeq(s, 1, Len(prefix)) = prefix

EndsWith(s, suffix) ==
    /\ Len(s) >= Len(suffix)
    /\ SubSeq(s, Len(s) - Len(suffix) + 1, Len(s)) = suffix

Digit(d) == <<"0", "1", "2", "3", "4", "5", "6", "7", "8", "9">>[d + 1]

RECURSIVE Decimal(_)
Decimal(n) == IF n < 10 THEN Digit(n) ELSE Decimal(n \div 10) \o Digit(n % 10)

\* str(n) of a non-negative integer, as a one-piece string
Str(n) == <<Decimal(n)>>

----------------------------------------------------------------------------
(* Turns and content blocks *)

NoContent == [kind |-> "none", text |-> <<>>, blocks |-> <<>>]
StrContent(s) == [kind |-> "str", text |-> s, blocks |-> <<>>]
ListContent(bs) == [kind |-> "list", text |-> <<>>, blocks |-> bs]

ImageBlock == [type |-> "image", text |-> <<>>]
TextBlock(s) == [type |-> "text", text |-> s]
UiBlock == TextBlock(UI_HIERARCHY_PROMPT \o <<"<hierarchy/>">>)

NoId == <<>>

Turn(role, id, content, calls) ==
    [role |-> role, tool_call_id |-> id, content |-> content, tool_calls |-> calls]

IsList(content) == content.kind = "list"

----------------------------------------------------------------------------
(* clean_messages *)

Budget == 2

\* Only the images are dropped
ShouldKeepNonImage(entry) == entry.type # "image"

should_keep(entry) ==
    entry.type # "image" /\ ~StartsWith(entry.text, UI_HIERARCHY_PROMPT)

\* A list filtered by removing entries from it while iterating over it:
\* the entry that follows a removed one is skipped.
RECURSIVE KeepSkipping(_)
KeepSkipping(content) ==
    IF content = <<>> THEN <<>>
    ELSE IF should_keep(Head(content)) THEN <<Head(content)>> \o KeepSkipping(Tail(content))
    ELSE IF Len(content) = 1 THEN <<>>
    ELSE <<content[2]>> \o KeepSkipping(Tail(Tail(content)))

\* The whole content of the turn is dropped
KeepNone(content) == <<>>

\* [entry for entry in content if should_keep(entry)]
KeepEntries(content) == SelectSeq(content, should_keep)

\* The budget compared with its initial value instead of with zero
OverBudgetInitial(budget) == budget < Budget

\* if budget < 0
OverBudget(budget) == budget < 0

\* the loop over reversed(messages): idx walks from the last turn to the first
RECURSIVE CleanFrom(_, _, _)
CleanFrom(msgs, idx, budget) ==
    IF idx = 0 THEN msgs
    ELSE IF IsList(msgs[idx].content)
         THEN CleanFrom(
                  IF OverBudget(budget - 1)
                  THEN [msgs EXCEPT ![idx].content.blocks = KeepEntries(@)]
                  ELSE msgs,
                  idx - 1, budget - 1)
         ELSE CleanFrom(msgs, idx - 1, budget)

\* A retention policy that deletes the turns beyond the budget instead of
\* rewriting their content
CleanDroppingTurns(msgs) ==
    LET rank(i) == Cardinality({j \in i..Len(msgs) : IsList(msgs[j].content)})
        kept == {i \in 1..Len(msgs) : ~(IsList(msgs[i].content) /\ rank(i) > Budget)}
        RECURSIVE Pick(_)
        Pick(i) == IF i > Len(msgs) THEN <<>>
                   ELSE (IF i \in kept THEN <<msgs[i]>> ELSE <<>>) \o Pick(i + 1)
    IN Pick(1)

clean_messages(msgs) == CleanFrom(msgs, Len(msgs), Budget)

ListTurns(msgs) == {i \in 1..Len(msgs) : IsList(msgs[i].content)}

IsCandidate(entry) == ~should_keep(entry)

CarriesCandidate(turn) ==
    /\ IsList(turn.content)
    /\ \E j \in 1..Len(turn.content.blocks) : IsCandidate(turn.content.blocks[j])

----------------------------------------------------------------------------
(* Tool calls, as the backend supplies them *)

\* function["arguments"]: a JSON string. kind says what json.loads makes of it:
\* "absent" (no or empty string: args = {}), "invalid" (not JSON), "nonobject"
\* (JSON, but not an object: a list, a number, null), "object" (obj is the mapping).
NoArgs == [k \in {} |-> 0]
ArgsAbsent == [kind |-> "absent", obj |-> NoArgs]
ArgsInvalid == [kind |-> "invalid", obj |-> NoArgs]
ArgsNonObject == [kind |-> "nonobject", obj |-> NoArgs]
ArgsObject(o) == [kind |-> "object", obj |-> o]

ToolCall(id, name, arguments) == [id |-> id, name |-> name, arguments |-> arguments]

\* TOOL_DEFINITIONS: the active catalogue
ToolNames == {"home", "click", "enter_text", "start_app", "select_text", "swipe",
              "copy_selected"}

----------------------------------------------------------------------------
(* run_shell_command *)

\* What the transport does for the commands of one call: the failAt-th command
\* fails (0: none does), with a non-zero exit status or with an I/O failure.
NoFail == [failAt |-> 0, kind |-> "ok"]
FailKinds == {"exit", "oserror"}
Failure(k, kind) == [failAt |-> k, kind |-> kind]

\* The exception run_shell_command leaves with: subprocess's CalledProcessError
\* is caught and replaced by a plain Exception; an OSError passes through.
run_shell_command(kind) ==
    CASE kind = "exit" -> "Exception"
      [] kind = "oserror" -> "OSError"
      [] OTHER -> "none"

\* The commands issued (the failing one is the last issued) and the exception
Issue(cmds, out) ==
    IF out.failAt \in 1..Len(cmds)
    THEN [cmds |-> SubSeq(cmds, 1, out.failAt), exc |-> run_shell_command(out.kind)]
    ELSE [cmds |-> cmds, exc |-> "none"]

----------------------------------------------------------------------------
(* enter_text: the lines of the text and the commands of each *)

Newline == "\n"
Sentinel == <<"-", "-", "-">>

RECURSIVE Split(_)
Split(text) ==
    IF \E i \in 1..Len(text) : text[i] = Newline
    THEN LET i == CHOOSE k \in 1..Len(text) :
                      text[k] = Newline /\ \A j \in 1..(k - 1) : text[j] # Newline
         IN <<SubSeq(text, 1, i - 1)>> \o Split(SubSeq(text, i + 1, Len(text)))
    ELSE <<text>>

RECURSIVE Replace(_, _, _)
Replace(line, old, new) ==
    IF line = <<>> THEN <<>>
    ELSE (IF Head(line) = old THEN new ELSE <<Head(line)>>) \o Replace(Tail(line), old, new)

RECURSIVE Join(_)
Join(line) == IF line = <<>> THEN "" ELSE Head(line) \o Join(Tail(line))

Sanitize(line) ==
    Replace(Replace(Replace(line, "'", <<" ">>), "€", <<"E", "U", "R">>), "ö", <<"o">>)

\* Every line followed by the ENTER key event, sentinel or not
LineCommandsAlwaysSubmit(line) ==
    LET skip_auto_submit == EndsWith(line, Sentinel)
        stripped == IF skip_auto_submit THEN SubSeq(line, 1, Len(line) - 3) ELSE line
    IN << <<"input", "text", "'" \o Join(Sanitize(stripped)) \o "'">>,
          <<"input", "keyevent", "KEYCODE_ENTER">> >>

LineCommands(line) ==
    LET skip_auto_submit == EndsWith(line, Sentinel)
        stripped == IF skip_auto_submit THEN SubSeq(line, 1, Len(line) - 3) ELSE line
        typed == <<"input", "text", "'" \o Join(Sanitize(stripped)) \o "'">>
    IN IF skip_auto_submit THEN <<typed>>
       ELSE <<typed, <<"input", "keyevent", "KEYCODE_ENTER">>>>

RECURSIVE LinesCommands(_)
LinesCommands(lines) ==
    IF lines = <<>> THEN <<>>
    ELSE LineCommands(Head(lines)) \o LinesCommands(Tail(lines))

----------------------------------------------------------------------------
(* handle_tool_calls: one tool call *)

\* The keys read with args[...] by the branch of each tool, in the order read
RequiredArgs(name) ==
    CASE name = "click" -> <<"x", "y">>
      [] name = "enter_text" -> <<"text">>
      [] name = "start_app" -> <<"package_name">>
      [] name = "select_text" -> <<"start_x", "start_y", "end_x", "end_y">>
      [] name = "swipe" -> <<"start_x", "start_y", "end_x", "end_y">>
      [] OTHER -> <<>>

\* The exception of decoding the arguments and reading the required ones
ArgsError(call) ==
    LET a == call.arguments
        req == RequiredArgs(call.name)
    IN IF a.kind = "invalid" THEN "JSONDecodeError"
       ELSE IF req = <<>> THEN "none"
       ELSE IF a.kind = "nonobject" THEN "TypeError"
       ELSE IF \E i \in 1..Len(req) : req[i] \notin DOMAIN a.obj THEN "KeyError"
       ELSE "none"

\* The device commands of a call whose arguments were read, in order
\* The drag issued before the long press
SelectCommandsDragFirst(start_x, start_y, end_x, end_y) ==
    << <<"input", "swipe">> \o Str(start_x) \o Str(start_y)
           \o Str(end_x) \o Str(end_y) \o <<"300">>,
       <<"input", "swipe">> \o Str(start_x) \o Str(start_y)
           \o Str(start_x) \o Str(start_y) \o <<"800">> >>

\* select_text: the long press at the starting point, then the drag
SelectCommands(start_x, start_y, end_x, end_y) ==
    << <<"input", "swipe">> \o Str(start_x) \o Str(start_y)
           \o Str(start_x) \o Str(start_y) \o <<"800">>,
       <<"input", "swipe">> \o Str(start_x) \o Str(start_y)
           \o Str(end_x) \o Str(end_y) \o <<"300">> >>

Commands(call) ==
    LET args == call.arguments.obj
        name == call.name
    IN CASE name = "home" -> << <<"input", "keyevent", "KEYCODE_HOME">> >>
         [] name = "click" ->
                << <<"input", "tap">> \o Str(args["x"]) \o Str(args["y"]) >>
         [] name = "enter_text" -> LinesCommands(Split(args["text"]))
         [] name = "screenshot" -> << <<"screencap", "-p">> >>
         [] name = "start_app" ->
                << <<"monkey", "-p", args["package_name"], "-c",
                     "android.intent.category.LAUNCHER", "1">> >>
         [] name = "select_text" ->
                SelectCommands(args["start_x"], args["start_y"],
                               args["end_x"], args["end_y"])
         [] name = "swipe" ->
                << <<"input", "swipe">> \o Str(args["start_x"]) \o Str(args["start_y"])
                       \o Str(args["end_x"]) \o Str(args["end_y"])
                       \o Str(IF "duration" \in DOMAIN args THEN args["duration"] ELSE 300) >>
         [] name = "copy_selected" ->
                << <<"input", "keyevent", "KEYCODE_COPY">>,
                   <<"service", "call", "clipboard", "get_clipboard">> >>
         [] OTHER -> <<>>

\* add_result(f"Unknown tool call: {function['name']}")
UnknownStatus(name) == <<"Unknown tool call: ", name>>

Point(x, y) == <<"(">> \o Str(x) \o <<", ">> \o Str(y) \o <<")">>

\* The status string of a call all of whose commands succeeded
Status(call) ==
    LET args == call.arguments.obj
        name == call.name
    IN CASE name = "home" -> <<"Pressed home button">>
         [] name = "click" -> <<"Clicked at coordinates ">> \o Point(args["x"], args["y"])
         [] name = "enter_text" -> <<"Entered text: '">> \o args["text"] \o <<"'">>
         [] name = "screenshot" -> <<"Here's the screenshot b64 encoded:\n", "<jpeg>">>
         [] name = "start_app" -> <<"Started app: ", args["package_name"]>>
         [] name = "select_text" ->
                <<"Selected text from ">> \o Point(args["start_x"], args["start_y"])
                    \o <<" to ">> \o Point(args["end_x"], args["end_y"])
         [] name = "swipe" ->
                <<"Swiped from ">> \o Point(args["start_x"], args["start_y"])
                    \o <<" to ">> \o Point(args["end_x"], args["end_y"])
         [] name = "copy_selected" -> <<"Clipboard contents: ", "<clipboard>">>
         [] OTHER -> UnknownStatus(name)

ErrorPrefix == "Error processing tool call: "
ErrorStatus(exc) == <<ErrorPrefix, exc>>

\* except (subprocess.CalledProcessError, json.JSONDecodeError, KeyError, OSError)
Caught(exc) == exc \in {"CalledProcessError", "JSONDecodeError", "KeyError", "OSError"}

\* The body of the for loop for one call: the commands it issues, and either the
\* output it adds or the exception that leaves handle_tool_calls.
HandleOne(call, out) ==
    LET argsExc == ArgsError(call)
        run == IF argsExc = "none" THEN Issue(Commands(call), out)
               ELSE [cmds |-> <<>>, exc |-> argsExc]
    IN IF run.exc = "none"
       THEN [raised |-> FALSE, exc |-> "none", cmds |-> run.cmds, output |-> Status(call)]
       ELSE IF Caught(run.exc)
       THEN [raised |-> FALSE, exc |-> run.exc, cmds |-> run.cmds,
             output |-> ErrorStatus(run.exc)]
       ELSE [raised |-> TRUE, exc |-> run.exc, cmds |-> run.cmds, output |-> <<>>]

----------------------------------------------------------------------------
(* handle_tool_calls: the batch *)

\* The commands of call i (0: the snapshot), tagged with the call they belong to
Tagged(i, cmds) == [k \in 1..Len(cmds) |-> [call |-> i, cmd |-> cmds[k]]]

\* add_result: the identifier of the call being handled and the output
ToolResult(call, output) == [tool_call_id |-> call.id, output |-> StrContent(output)]

\* The for loop, from call i on. acc holds the results and commands so far.
RECURSIVE RunCalls(_, _, _, _)
RunCalls(calls, outs, i, acc) ==
    IF i > Len(calls) THEN acc
    ELSE LET h == HandleOne(calls[i], outs[i])
             issued == acc.issued \o Tagged(i, h.cmds)
         IN IF h.raised
            THEN [raised |-> TRUE, exc |-> h.exc, results |-> acc.results,
                  issued |-> issued]
            ELSE RunCalls(calls, outs, i + 1,
                          [raised |-> FALSE, exc |-> "none",
                           results |-> Append(acc.results, ToolResult(calls[i], h.output)),
                           issued |-> issued])

\* take_screenshot(), then get_ui_hierarchy(clean=True): three commands
SnapshotCommands ==
    << <<"screencap", "-p">>,
       <<"uiautomator", "dump", "/sdcard/window_dump.xml">>,
       <<"cat", "/sdcard/window_dump.xml">> >>

\* The composite that replaces the output of the last result
Augmented(output) ==
    ListContent(<<ImageBlock, UiBlock, TextBlock(output.text)>>)

\* The composite put on the first result of the batch instead of the last
AugmentFirst(r, snap) ==
    IF r.results = <<>>
    THEN [r EXCEPT !.raised = TRUE, !.exc = "IndexError"]
    ELSE LET shot == Issue(SnapshotCommands, snap)
             issued == r.issued \o Tagged(0, shot.cmds)
         IN IF shot.exc # "none"
            THEN [r EXCEPT !.raised = TRUE, !.exc = shot.exc, !.issued = issued]
            ELSE [r EXCEPT !.issued = issued,
                           !.results[1].output = Augmented(r.results[1].output)]

\* tool_results[-1]["output"] = [...]: outside the try, so nothing is caught here
Augment(r, snap) ==
    IF r.results = <<>>
    THEN [r EXCEPT !.raised = TRUE, !.exc = "IndexError"]
    ELSE LET shot == Issue(SnapshotCommands, snap)
             issued == r.issued \o Tagged(0, shot.cmds)
             n == Len(r.results)
         IN IF shot.exc # "none"
            THEN [r EXCEPT !.raised = TRUE, !.exc = shot.exc, !.issued = issued]
            ELSE [r EXCEPT !.issued = issued,
                           !.results[n].output = Augmented(r.results[n].output)]

NoResults == [raised |-> FALSE, exc |-> "none", results |-> <<>>, issued |-> <<>>]

\* handle_tool_calls(tool_calls) with the transport behaving as outs and snap say:
\* raised tells whether an exception left it, results are the tool results it
\* returns (or had built), issued the device commands it issued.
handle_tool_calls(calls, outs, snap) ==
    LET r == RunCalls(calls, outs, 1, NoResults)
    IN IF r.raised THEN r ELSE Augment(r, snap)

IsComposite(output) ==
    /\ output.kind = "list"
    /\ Len(output.blocks) = 3
    /\ output.blocks[1].type = "image"
    /\ output.blocks[2].type = "text"
    /\ StartsWith(output.blocks[2].text, UI_HIERARCHY_PROMPT)
    /\ output.blocks[3].type = "text"
    /\ ~StartsWith(output.blocks[3].text, UI_HIERARCHY_PROMPT)

IsPlain(output) == output.kind = "str"

\* The status text of a result, plain or wrapped in the composite
StatusOf(output) ==
    IF output.kind = "str" THEN output.text ELSE output.blocks[Len(output.blocks)].text

IsErrorStatus(text) == StartsWith(text, <<ErrorPrefix>>)

CommandsOf(issued, i) == SelectSeq(issued, LAMBDA e : e.call = i)

----------------------------------------------------------------------------
(* Dispatcher study: handle_tool_calls on drawn batches *)

Text_a_b == <<"a", "-", "-", "-", Newline, "b">>

\* (name, arguments) pairs the backend may put in a call
CallShapes ==
    { <<"home", ArgsAbsent>>,
      <<"click", ArgsObject([k \in {"x", "y"} |-> IF k = "x" THEN 10 ELSE 20])>>,
      <<"click", ArgsObject([k \in {"x"} |-> 10])>>,
      <<"click", ArgsInvalid>>,
      <<"click", ArgsNonObject>>,
      <<"enter_text", ArgsObject([k \in {"text"} |-> Text_a_b])>>,
      <<"start_app", ArgsObject([k \in {"package_name"} |-> "com.app"])>>,
      <<"select_text", ArgsObject([k \in {"start_x", "start_y", "end_x", "end_y"} |->
                                     CASE k = "start_x" -> 1 [] k = "start_y" -> 2
                                       [] k = "end_x" -> 3 [] OTHER -> 4])>>,
      <<"select_text", ArgsObject([k \in {"start_x", "start_y", "end_x"} |-> 1])>>,
      <<"swipe", ArgsObject([k \in {"start_x", "start_y", "end_x", "end_y"} |-> 5])>>,
      <<"copy_selected", ArgsAbsent>>,
      <<"screenshot", ArgsAbsent>>,
      <<"frobnicate", ArgsAbsent>>,
      <<"frobnicate", ArgsInvalid>>,
      <<"frobnicate", ArgsNonObject>> }

\* The backend's identifier of call i of a batch
CallId(round, i) == <<round, i>>

Batches(shapes, maxLen, round) ==
    UNION { { [i \in 1..n |-> ToolCall(CallId(round, i), f[i][1], f[i][2])] :
                f \in [1..n -> shapes] } : n \in 0..maxLen }

\* What the transport may do for one call: nothing wrong, or one of the commands
\* the call would issue fails
OutcomesFor(call) ==
    {NoFail} \cup
    (IF ArgsError(call) = "none"
     THEN {Failure(k, kind) : k \in 1..Len(Commands(call)), kind \in FailKinds}
     ELSE {})

SnapshotOutcomes == {NoFail, Failure(1, "exit"), Failure(2, "oserror")}

\* assistant_message.get("tool_calls"): the key absent, null, or a list of calls
NoResponse == [kind |-> "absent", calls |-> <<>>]
NullToolCalls == [kind |-> "null", calls |-> <<>>]
ToolCallsList(calls) == [kind |-> "list", calls |-> calls]

NotRun == [ran |-> FALSE, raised |-> FALSE, exc |-> "none", results |-> <<>>,
           issued |-> <<>>]

Ran(r) == [ran |-> TRUE, raised |-> r.raised, exc |-> r.exc, results |-> r.results,
           issued |-> r.issued]

LoopIdle ==
    /\ pc = "idle" /\ attempt = 0 /\ pending = <<>> /\ answer = NoContent
    /\ file = <<>> /\ sent = <<>> /\ deviceLog = <<>> /\ lastEvent = "none"
    /\ rounds = 0 /\ cycles = 0 /\ requested = 0 /\ backendCalls = 0
    /\ response = NoResponse
    /\ callFails = 0 /\ prevSent = <<>> /\ prevEvent = "none" /\ retryCause = "none"

DispatchIdle ==
    /\ batch = <<>> /\ outcomes = <<>> /\ snapshot = NoFail /\ dispatched = NotRun

PruneIdle == history = <<>>

InitDispatch ==
    /\ batch \in Batches(CallShapes, MaxBatch, 1)
    /\ outcomes \in {o \in [1..Len(batch) -> {NoFail} \cup
                                {Failure(k, kind) : k \in 1..3, kind \in FailKinds}] :
                        \A i \in 1..Len(batch) : o[i] \in OutcomesFor(batch[i])}
    /\ snapshot \in SnapshotOutcomes
    /\ dispatched = NotRun
    /\ messages = <<>>
    /\ LoopIdle
    /\ PruneIdle

DispatchRun ==
    /\ ~dispatched.ran
    /\ dispatched' = Ran(handle_tool_calls(batch, outcomes, snapshot))
    /\ UNCHANGED <<messages, loopVars, pruneVars, batch, outcomes, snapshot>>

NextDispatch == DispatchRun

SpecDispatch == InitDispatch /\ [][NextDispatch]_vars

----------------------------------------------------------------------------
(* Action study: one enter_text or select_text call on drawn arguments *)

MaxText == 5

\* The characters of the drawn texts
TextAlphabet == {"a", "-", Newline, "'"}

Texts == UNION { [1..n -> TextAlphabet] : n \in 0..MaxText } \cup {Text_a_b}

Coordinates == {0, 7, 123}

ActionShapes ==
    { <<"enter_text", ArgsObject([k \in {"text"} |-> t])>> : t \in Texts }
    \cup
    { <<"select_text", ArgsObject([k \in {"start_x", "start_y", "end_x", "end_y"} |->
                                     CASE k = "start_x" -> c[1] [] k = "start_y" -> c[2]
                                       [] k = "end_x" -> c[3] [] OTHER -> c[4]])>> :
          c \in Coordinates \X Coordinates \X Coordinates \X Coordinates }

InitActions ==
    /\ \E shape \in ActionShapes :
           batch = <<ToolCall(CallId(1, 1), shape[1], shape[2])>>
    /\ outcomes \in {<<o>> : o \in {NoFail} \cup
                        {Failure(k, kind) : k \in 1..(2 * (MaxText + 2)), kind \in FailKinds}}
    /\ outcomes[1] \in OutcomesFor(batch[1])
    /\ snapshot = NoFail
    /\ dispatched = NotRun
    /\ messages = <<>>
    /\ LoopIdle
    /\ PruneIdle

SpecActions == InitActions /\ [][NextDispatch]_vars

----------------------------------------------------------------------------
(* Retention study: clean_messages on drawn transcripts *)

StatusBlock == TextBlock(<<"Clicked at coordinates ", "(", "10", ", ", "20", ")">>)

\* Turns a transcript may hold: plain text, no content, and block lists
StudyTurns ==
    { Turn("system", NoId, StrContent(<<"system prompt">>), <<>>),
      Turn("user", NoId, StrContent(<<"request">>), <<>>),
      Turn("assistant", NoId, NoContent, <<>>),
      Turn("tool", CallId(1, 1), StrContent(<<"Pressed home button">>), <<>>),
      Turn("tool", CallId(1, 2), ListContent(<<ImageBlock, UiBlock, StatusBlock>>), <<>>),
      Turn("tool", CallId(2, 1), ListContent(<<StatusBlock>>), <<>>),
      Turn("tool", CallId(2, 2), ListContent(<<>>), <<>>),
      Turn("user", NoId, ListContent(<<StatusBlock, ImageBlock>>), <<>>),
      Turn("tool", CallId(3, 1), ListContent(<<UiBlock, ImageBlock>>), <<>>) }

Transcripts(maxLen) == UNION { [1..n -> StudyTurns] : n \in 0..maxLen }

InitPrune ==
    /\ messages \in Transcripts(MaxTurns)
    /\ history = <<>>
    /\ LoopIdle
    /\ DispatchIdle

\* messages = clean_messages(messages)
PruneStep ==
    /\ Len(history) < MaxPrunes
    /\ messages' = clean_messages(messages)
    /\ history' = Append(history, messages)
    /\ UNCHANGED <<loopVars, dispatchVars>>

NextPrune == PruneStep

SpecPrune == InitPrune /\ [][NextPrune]_vars

----------------------------------------------------------------------------
(* The agent loop: main, and call_llm under @retry *)

\* stop_after_attempt(2)
MaxAttempts == 2

\* tenacity's stop condition, asked after a failed attempt
StopAfterAttempt(n) == n >= MaxAttempts

\* A retry that starts over from the transcript as main built it
RetryFromStart(msgs) == SubSeq(msgs, 1, 2)

\* The transcript a retry starts from. The decorator calls call_llm again with
\* the list object main passed; clean_messages returned that same object and
\* every append went to it, so it is the transcript as it stands.
RetryArgument(msgs) == msgs

SystemTurn == Turn("system", NoId, StrContent(<<"system prompt">>), <<>>)
UserTurn == Turn("user", NoId, StrContent(<<"request">>), <<>>)
NoMessage == Turn("assistant", NoId, NoContent, <<>>)
FinalText == StrContent(<<"final answer">>)

\* What the scripted backend may ask for in the loop
LoopShapes ==
    { <<"click", ArgsObject([k \in {"x", "y"} |-> IF k = "x" THEN 10 ELSE 20])>> }

\* The transport in the loop, as <<outcome of each call, outcome of the snapshot>>:
\* everything succeeds, or the command of the first call fails, or a command of the
\* snapshot does
AllFine(calls) == [i \in 1..Len(calls) |-> NoFail]

LoopTransport(calls) ==
    { <<AllFine(calls), NoFail>>, <<AllFine(calls), Failure(2, "oserror")>> } \cup
    (IF calls = <<>> THEN {}
     ELSE { <<[AllFine(calls) EXCEPT ![1] = Failure(1, kind)], NoFail>> :
                kind \in FailKinds })

\* What the tool_calls field of a response may be
Responses(round) ==
    {NoResponse, NullToolCalls}
    \cup {ToolCallsList(calls) : calls \in Batches(LoopShapes, MaxLoopBatch, round)}

\* The dispatcher entered whenever the response has a tool_calls list
HasToolCallsList(tool_calls) == tool_calls.kind = "list"

\* if not (tool_calls := assistant_message.get("tool_calls")): the truth value
\* of the field, false for None and for the empty list
HasToolCalls(tool_calls) == tool_calls.kind = "list" /\ tool_calls.calls # <<>>

\* messages.append({"role": "tool", "tool_call_id": ..., "content": ...})
ToolTurn(result) == Turn("tool", result.tool_call_id, result.output, <<>>)

\* Only the result that carries the snapshot is appended
ToolTurnsLastOnly(results) == <<ToolTurn(results[Len(results)])>>

\* The results appended from the last to the first
ToolTurnsReversed(results) ==
    [i \in 1..Len(results) |-> ToolTurn(results[Len(results) + 1 - i])]

\* for result in tool_results: messages.append(...)
ToolTurns(results) == [i \in 1..Len(results) |-> ToolTurn(results[i])]

\* The commands of dispatch cycle c, as they enter the device log
Logged(c, issued) ==
    [k \in 1..Len(issued) |-> [cycle |-> c, call |-> issued[k].call, cmd |-> issued[k].cmd]]

Init ==
    /\ messages = <<SystemTurn, UserTurn>>
    /\ pc = "awaiting"
    /\ attempt = 1
    /\ pending = NoMessage
    /\ answer = NoContent
    /\ file = <<>>
    /\ sent = <<>>
    /\ deviceLog = <<>>
    /\ lastEvent = "start"
    /\ rounds = 0
    /\ cycles = 0
    /\ requested = 0
    /\ response = NoResponse
    /\ backendCalls = 0
    /\ callFails = 0
    /\ prevSent = <<>>
    /\ prevEvent = "start"
    /\ retryCause = "none"
    /\ DispatchIdle
    /\ PruneIdle

\* An exception leaves call_llm: tenacity calls it again, or re-raises
Raise(cause) ==
    IF StopAfterAttempt(attempt)
    THEN /\ pc' = "aborted"
         /\ UNCHANGED <<attempt, retryCause, messages>>
    ELSE /\ pc' = "awaiting"
         /\ attempt' = attempt + 1
         /\ retryCause' = cause
         /\ messages' = RetryArgument(messages)

\* The transcript added to the end of the file instead of replacing it
WriteAndSendAppending ==
    /\ file' = file \o messages
    /\ sent' = messages
    /\ prevSent' = sent
    /\ backendCalls' = backendCalls + 1

\* with open("messages.json", "w") as f: json.dump(messages, f), then the request
WriteAndSend ==
    /\ file' = messages
    /\ sent' = messages
    /\ prevSent' = sent
    /\ backendCalls' = backendCalls + 1

\* The backend call fails (a non-200 status, a transport error)
BackendFails ==
    /\ pc = "awaiting"
    /\ WriteAndSend
    /\ callFails' = callFails + 1
    /\ lastEvent' = "backend_failed"
    /\ prevEvent' = lastEvent
    /\ Raise("backend")
    /\ UNCHANGED <<pending, answer, deviceLog, rounds, cycles, requested, response,
                   dispatchVars, pruneVars>>

\* The backend answers without tool calls: clean_messages, then return
BackendReturnsFinal ==
    /\ pc = "awaiting"
    /\ \E tool_calls \in Responses(rounds + 1) :
          /\ ~HasToolCalls(tool_calls)
          /\ response' = tool_calls
    /\ WriteAndSend
    /\ messages' = clean_messages(messages)
    /\ answer' = FinalText
    /\ pc' = "done"
    /\ callFails' = 0
    /\ lastEvent' = "final"
    /\ prevEvent' = lastEvent
    /\ UNCHANGED <<attempt, pending, deviceLog, rounds, cycles, requested,
                   retryCause, dispatchVars, pruneVars>>

\* The backend answers with tool calls: clean_messages, then on to the dispatcher
BackendReturnsToolCalls ==
    /\ pc = "awaiting"
    /\ rounds < MaxRounds
    /\ \E tool_calls \in Responses(rounds + 1) :
          /\ HasToolCalls(tool_calls)
          /\ response' = tool_calls
          /\ pending' = Turn("assistant", NoId, StrContent(<<"next step">>),
                             tool_calls.calls)
          /\ requested' = requested + Len(tool_calls.calls)
    /\ WriteAndSend
    /\ messages' = clean_messages(messages)
    /\ pc' = "dispatching"
    /\ rounds' = rounds + 1
    /\ callFails' = 0
    /\ lastEvent' = "tool_calls"
    /\ prevEvent' = lastEvent
    /\ UNCHANGED <<attempt, answer, deviceLog, cycles, retryCause,
                   dispatchVars, pruneVars>>

\* handle_tool_calls returns: the assistant turn and the tool turns are appended
DispatchReturns ==
    /\ pc = "dispatching"
    /\ \E t \in LoopTransport(pending.tool_calls) :
          LET d == handle_tool_calls(pending.tool_calls, t[1], t[2])
          IN /\ ~d.raised
             /\ messages' = messages \o <<pending>> \o ToolTurns(d.results)
             /\ deviceLog' = deviceLog \o Logged(cycles + 1, d.issued)
    /\ cycles' = cycles + 1
    /\ pending' = NoMessage
    /\ pc' = "awaiting"
    /\ lastEvent' = "dispatched"
    /\ prevEvent' = lastEvent
    /\ UNCHANGED <<attempt, answer, file, sent, rounds, requested, response, backendCalls,
                   callFails, prevSent, retryCause, dispatchVars, pruneVars>>

\* An exception leaves handle_tool_calls, and so call_llm: nothing is appended
DispatchRaises ==
    /\ pc = "dispatching"
    /\ \E t \in LoopTransport(pending.tool_calls) :
          LET d == handle_tool_calls(pending.tool_calls, t[1], t[2])
          IN /\ d.raised
             /\ deviceLog' = deviceLog \o Logged(cycles + 1, d.issued)
    /\ cycles' = cycles + 1
    /\ pending' = NoMessage
    /\ lastEvent' = "dispatch_raised"
    /\ prevEvent' = lastEvent
    /\ Raise("device")
    /\ UNCHANGED <<answer, file, sent, rounds, requested, response, backendCalls,
                   callFails, prevSent, dispatchVars, pruneVars>>

Next ==
    \/ BackendFails
    \/ BackendReturnsFinal
    \/ BackendReturnsToolCalls
    \/ DispatchReturns
    \/ DispatchRaises

Spec == Init /\ [][Next]_vars

----------------------------------------------------------------------------
(* Properties of the dispatcher, checked under SpecDispatch *)

Returned == dispatched.ran /\ ~dispatched.raised

\* Call i was reached: every call before it added its result
Reached(i) == Len(dispatched.results) >= i - 1

NoTypeError == \A j \in 1..Len(batch) : ArgsError(batch[j]) # "TypeError"

\* C1: a device command failure (non-zero exit or I/O failure) while executing
\* call i is caught for that call only: the batch returns, result i is a textual
\* error, and every later call is executed and gets its own result.
C1_DeviceFailureCaughtPerCall ==
    (dispatched.ran /\ snapshot = NoFail /\ NoTypeError) =>
        \A i \in 1..Len(batch) :
            outcomes[i] # NoFail =>
                /\ ~dispatched.raised
                /\ Len(dispatched.results) = Len(batch)
                /\ IsErrorStatus(StatusOf(dispatched.results[i].output))

\* C5: a non-empty batch of N calls on which dispatch returns gives exactly N
\* results, result i with the identifier of call i, the last one the composite
\* {image, UI tree, status} and the others plain strings, whatever the last call did.
C5_OneResultPerCallLastAugmented ==
    (Returned /\ batch # <<>>) =>
        LET n == Len(batch)
            rs == dispatched.results
        IN /\ Len(rs) = n
           /\ \A i \in 1..n : rs[i].tool_call_id = batch[i].id
           /\ IsComposite(rs[n].output)
           /\ \A i \in 1..(n - 1) : IsPlain(rs[i].output)

\* C5 witness: a returned batch of two whose last call failed on its arguments
C5_Witness ==
    /\ Returned
    /\ Len(batch) = 2
    /\ ArgsError(batch[2]) = "KeyError"
    /\ IsComposite(dispatched.results[2].output)
    /\ IsErrorStatus(StatusOf(dispatched.results[2].output))
    /\ IsPlain(dispatched.results[1].output)

Without(seq, i) == SubSeq(seq, 1, i - 1) \o SubSeq(seq, i + 1, Len(seq))

\* The dispatch of the batch with call i left out, the transport behaving alike
Absent(i) == handle_tool_calls(Without(batch, i), Without(outcomes, i), snapshot)

\* C6: a call whose arguments cannot be decoded or lack a required argument gives
\* a textual failure result for that call only and issues no device command; the
\* commands and the results (identifier and status) of every other call are those
\* of the batch without the failing call.
C6_ArgumentFailureIsolated ==
    dispatched.ran =>
        \A i \in 1..Len(batch) :
            (ArgsError(batch[i]) # "none" /\ Reached(i)) =>
                LET rs == dispatched.results
                    alone == Absent(i)
                IN /\ Len(rs) >= i
                   /\ IsErrorStatus(StatusOf(rs[i].output))
                   /\ CommandsOf(dispatched.issued, i) = <<>>
                   /\ Len(rs) = Len(alone.results) + 1
                   /\ \A j \in 1..Len(batch) : j # i =>
                         LET k == IF j < i THEN j ELSE j - 1
                         IN /\ [e \in DOMAIN CommandsOf(dispatched.issued, j) |->
                                   CommandsOf(dispatched.issued, j)[e].cmd]
                               = [e \in DOMAIN CommandsOf(alone.issued, k) |->
                                   CommandsOf(alone.issued, k)[e].cmd]
                            /\ (j <= Len(rs)) =>
                                  /\ rs[j].tool_call_id = alone.results[k].tool_call_id
                                  /\ StatusOf(rs[j].output) = StatusOf(alone.results[k].output)

\* C13: a call whose name is not one of the seven tools of the active catalogue
\* (screenshot included) gives a result saying the tool is unrecognized, issues
\* no device command and does not fail the batch.
C13_OutsideCatalogueUnrecognized ==
    dispatched.ran =>
        \A i \in 1..Len(batch) :
            (batch[i].name \notin ToolNames /\ batch[i].arguments.kind # "invalid"
                /\ Reached(i)) =>
                /\ Len(dispatched.results) >= i
                /\ StatusOf(dispatched.results[i].output) = UnknownStatus(batch[i].name)
                /\ CommandsOf(dispatched.issued, i) = <<>>

\* The number of issued commands that are cmd
Issued(issued, cmd) == Len(SelectSeq(issued, LAMBDA e : e.cmd = cmd))

\* The commands of the calls come in the order of the calls, and the commands
\* of the snapshot (tagged 0) come after all of them
InCallOrder(issued) ==
    \A p, q \in 1..Len(issued) :
        p < q => /\ issued[p].call = 0 => issued[q].call = 0
                 /\ issued[q].call # 0 => issued[p].call <= issued[q].call

\* C14: in one dispatch cycle the device commands are issued call by call in the
\* order of the batch, and exactly one snapshot (one screen capture, one UI-tree
\* capture) is taken, after the commands of the last call, whatever the number
\* of calls.
C14_SequentialOneSnapshot ==
    (/\ dispatched.ran /\ batch # <<>> /\ snapshot = NoFail /\ NoTypeError
     /\ \A i \in 1..Len(batch) : batch[i].name # "screenshot") =>
        /\ InCallOrder(dispatched.issued)
        /\ Issued(dispatched.issued, SnapshotCommands[1]) = 1
        /\ Issued(dispatched.issued, SnapshotCommands[2]) = 1
        /\ dispatched.issued # <<>>
        /\ dispatched.issued[Len(dispatched.issued)].call = 0

----------------------------------------------------------------------------
(* Properties of enter_text and select_text, checked under SpecActions *)

\* The commands issued for the call of the batch
IssuedForCall == [k \in 1..Len(CommandsOf(dispatched.issued, 1)) |->
                     CommandsOf(dispatched.issued, 1)[k].cmd]

\* The commands issued are the first ones of expected: all of them when the
\* transport works, those up to the failing one otherwise
IssuedPrefixOf(expectedLen) ==
    Len(IssuedForCall) = IF outcomes[1] = NoFail THEN expectedLen ELSE outcomes[1].failAt

EnteredText == batch[1].arguments.obj["text"]

\* The position of the k-th newline of text; 0 for k = 0, Len(text) + 1 past the last
NewlineAt(text, k) ==
    IF k = 0 THEN 0
    ELSE IF \E i \in 1..Len(text) :
                text[i] = Newline
                /\ Cardinality({j \in 1..i : text[j] = Newline}) = k
         THEN CHOOSE i \in 1..Len(text) :
                  text[i] = Newline
                  /\ Cardinality({j \in 1..i : text[j] = Newline}) = k
         ELSE Len(text) + 1

LineCount(text) == Cardinality({i \in 1..Len(text) : text[i] = Newline}) + 1

LineAt(text, k) == SubSeq(text, NewlineAt(text, k - 1) + 1, NewlineAt(text, k) - 1)

HasSentinel(text, k) ==
    LET line == LineAt(text, k)
    IN Len(line) >= 3 /\ \A d \in 0..2 : line[Len(line) - d] = "-"

\* The line as typed: without its sentinel, each quote replaced by a space
TypedLine(text, k) ==
    LET line == LineAt(text, k)
        kept == IF HasSentinel(text, k) THEN Len(line) - 3 ELSE Len(line)
    IN [i \in 1..kept |-> IF line[i] = "'" THEN " " ELSE line[i]]

\* Where the text command of line k stands among the commands of the call
TextCommandAt(text, k) ==
    k + Cardinality({j \in 1..(k - 1) : ~HasSentinel(text, j)})

SubmitKey == <<"input", "keyevent", "KEYCODE_ENTER">>

\* C15: enter_text issues, line by line in the order of the lines of the text,
\* one text command carrying the line without its sentinel, immediately
\* followed by the submit key event exactly when the line does not end with ---
\* (a failing command ends the call); enter_text("a---\nb") issues text a,
\* text b, submit.
C15_EnterTextPerLine ==
    (dispatched.ran /\ batch[1].name = "enter_text") =>
        LET text == EnteredText
            n == LineCount(text)
            cmds == IssuedForCall
        IN /\ IssuedPrefixOf(TextCommandAt(text, n + 1) - 1)
           /\ \A k \in 1..n :
                 LET p == TextCommandAt(text, k)
                 IN /\ p <= Len(cmds) =>
                          cmds[p] = <<"input", "text",
                                      "'" \o Join(TypedLine(text, k)) \o "'">>
                    /\ (p + 1 <= Len(cmds) /\ ~HasSentinel(text, k)) =>
                          cmds[p + 1] = SubmitKey
           /\ (text = Text_a_b /\ outcomes[1] = NoFail) =>
                 cmds = << <<"input", "text", "'a'">>, <<"input", "text", "'b'">>,
                           SubmitKey >>

\* C15 witness: a text of two lines, the first a quote with the sentinel, the
\* second empty, typed to the end
C15_Witness ==
    /\ Returned
    /\ batch[1].name = "enter_text"
    /\ EnteredText = <<"'", "-", "-", "-", Newline>>
    /\ IssuedForCall = << <<"input", "text", "' '">>,
                          <<"input", "text", "''">>, SubmitKey >>

\* C16: select_text issues two swipes and nothing else for the call: the long
\* press, a swipe from (x1, y1) to (x1, y1) lasting 800 ms, then the drag from
\* (x1, y1) to (x2, y2) lasting 300 ms; the drag is not issued unless the long
\* press completed.
C16_SelectTextHoldThenDrag ==
    (dispatched.ran /\ batch[1].name = "select_text") =>
        LET a == batch[1].arguments.obj
            x1 == Str(a["start_x"])
            y1 == Str(a["start_y"])
            x2 == Str(a["end_x"])
            y2 == Str(a["end_y"])
            hold == <<"input", "swipe">> \o x1 \o y1 \o x1 \o y1 \o <<"800">>
            drag == <<"input", "swipe">> \o x1 \o y1 \o x2 \o y2 \o <<"300">>
            cmds == IssuedForCall
        IN /\ IssuedPrefixOf(2)
           /\ cmds = SubSeq(<<hold, drag>>, 1, Len(cmds))
           /\ Len(cmds) >= 1
           /\ (outcomes[1] # NoFail /\ outcomes[1].failAt = 1) => cmds = <<hold>>

\* C16 witness: a selection from (123, 7) to (0, 123), both swipes issued
C16_Witness ==
    /\ Returned
    /\ batch[1].name = "select_text"
    /\ IssuedForCall = << <<"input", "swipe", "123", "7", "123", "7", "800">>,
                          <<"input", "swipe", "123", "7", "0", "123", "300">> >>

----------------------------------------------------------------------------
(* Properties of clean_messages, checked under SpecPrune *)

\* C7: pruning is idempotent: pruning a pruned transcript changes nothing.
C7_PruneIdempotent ==
    Len(history) >= 2 => messages = history[Len(history)]

\* C7 witness: the first pruning changed the transcript, the second did not
C7_Witness ==
    /\ Len(history) = 2
    /\ history[1] # history[2]
    /\ messages = history[2]

\* C8: a transcript with fewer than two list-structured turns is returned
\* unchanged, image and UI-tree blocks included.
C8_FewListTurnsUnchanged ==
    (Len(history) >= 1 /\ Cardinality(ListTurns(history[1])) < 2) =>
        messages = history[1]

\* C8 witness: one list-structured turn, with its image, survives pruning
C8_Witness ==
    /\ Len(history) = 1
    /\ Cardinality(ListTurns(history[1])) = 1
    /\ \E i \in 1..Len(messages) : CarriesCandidate(messages[i])
    /\ messages = history[1]

\* The transcript given to the k-th pruning, and the one it left
Before(k) == history[k]
After(k) == IF k < Len(history) THEN history[k + 1] ELSE messages

\* An image, or a text that begins with the UI-tree prefix marker
ImageOrUiTree(block) ==
    \/ block.type = "image"
    \/ block.type = "text" /\ StartsWith(block.text, UI_HIERARCHY_PROMPT)

IsStatusText(block) == block.type = "text" /\ ~StartsWith(block.text, UI_HIERARCHY_PROMPT)

\* How many list-structured turns stand at index i or later
RankFromEnd(msgs, i) == Cardinality({j \in i..Len(msgs) : IsList(msgs[j].content)})

\* C18: counting list-structured turns from the most recent turn to the oldest,
\* the two most recent keep their content intact; every older one ends up
\* with no image and no UI-tree text, its content being its other blocks in
\* their original order.
C18_RetentionRule ==
    \A k \in 1..Len(history) :
        /\ Len(After(k)) = Len(Before(k))
        /\ \A i \in 1..Len(Before(k)) :
              IsList(Before(k)[i].content) =>
                  IF RankFromEnd(Before(k), i) <= 2
                  THEN After(k)[i].content = Before(k)[i].content
                  ELSE /\ IsList(After(k)[i].content)
                       /\ \A b \in 1..Len(After(k)[i].content.blocks) :
                             ~ImageOrUiTree(After(k)[i].content.blocks[b])
                       /\ After(k)[i].content.blocks
                              = SelectSeq(Before(k)[i].content.blocks,
                                          LAMBDA e : ~ImageOrUiTree(e))

\* C18 witness: three list-structured turns with an image; after pruning the
\* oldest holds its status text alone and the two recent ones are as they were
C18_Witness ==
    /\ Len(history) = 1
    /\ Len(messages) = 4
    /\ history[1][1].content = ListContent(<<ImageBlock, UiBlock, StatusBlock>>)
    /\ messages[1].content = ListContent(<<StatusBlock>>)
    /\ ~IsList(messages[2].content)
    /\ messages[3].content = ListContent(<<StatusBlock, ImageBlock>>)
    /\ messages[4].content = ListContent(<<UiBlock, ImageBlock>>)

\* What pruning leaves of one turn: its role, identifier and tool calls; its
\* content when that is not a list; the status texts of a list, in their order
TurnFrame(before, after) ==
    /\ after.role = before.role
    /\ after.tool_call_id = before.tool_call_id
    /\ after.tool_calls = before.tool_calls
    /\ IF IsList(before.content)
       THEN /\ IsList(after.content)
            /\ SelectSeq(after.content.blocks, IsStatusText)
                   = SelectSeq(before.content.blocks, IsStatusText)
       ELSE after.content = before.content

\* C19: pruning leaves unchanged the number of turns, their order, the role and
\* tool-call identifier of each, the content of every turn whose content is
\* plain text, and every status text block of the list-structured turns.
C19_PruneFrame ==
    \A k \in 1..Len(history) :
        /\ Len(After(k)) = Len(Before(k))
        /\ \A i \in 1..Len(Before(k)) : TurnFrame(Before(k)[i], After(k)[i])

\* C19 witness: a pruning that emptied a list of its image and UI tree beside
\* a plain tool status and a list that holds a status text
C19_Witness ==
    /\ Len(history) = 1
    /\ Len(messages) = 4
    /\ messages[1].content = StrContent(<<"Pressed home button">>)
    /\ history[1][2].content = ListContent(<<UiBlock, ImageBlock>>)
    /\ messages[2].content = ListContent(<<>>)
    /\ messages[3].content = ListContent(<<StatusBlock>>)
    /\ messages[3].tool_call_id = CallId(2, 1)
    /\ IsList(messages[4].content)

----------------------------------------------------------------------------
(* Properties of the agent loop, checked under Spec *)

BackendEvents == {"backend_failed", "final", "tool_calls"}

\* C2: a failure of a device action or of the snapshot capture during dispatch
\* never triggers the retry policy: tenacity never retries (and so the backend is
\* never called again for the same transcript) on an exception from the dispatcher.
C2_DeviceFailureNeverRetried ==
    /\ retryCause # "device"
    /\ lastEvent # "dispatch_raised"

\* C3: the transcript sent to the backend is already pruned: clean_messages
\* changes nothing in it.
C3_SentTranscriptIsPruned ==
    clean_messages(sent) = sent

\* C4: the run aborts on a backend failure only after that same backend call has
\* failed on all of its attempts; a failure recovered in an earlier iteration
\* takes no attempt away from a later backend call.
C4_AbortOnlyAfterAllAttempts ==
    (pc = "aborted" /\ lastEvent = "backend_failed" /\ retryCause = "backend") =>
        callFails = MaxAttempts

\* C9: when a backend call fails and is retried, the transcript sent on the retry
\* holds every turn of the transcript of the failed attempt, in the same order,
\* none dropped or duplicated.
C9_RetryKeepsTranscript ==
    (prevEvent = "backend_failed" /\ lastEvent \in BackendEvents) => sent = prevSent

\* C9 witness: a retried backend call after turns had been appended
C9_Witness ==
    /\ prevEvent = "backend_failed"
    /\ lastEvent = "tool_calls"
    /\ Len(prevSent) > 2
    /\ sent = prevSent

Count(msgs, role) == Cardinality({i \in 1..Len(msgs) : msgs[i].role = role})

\* No exception left call_llm during the run
FailureFree == attempt = 1 /\ pc # "aborted"

\* C10: with a failure-free run in which the backend gave k rounds of tool calls
\* and then a final text, the loop ran k dispatch cycles, the transcript grew by k
\* assistant turns and one tool turn per requested call (the final answer is not
\* appended), and the loop is done with the final text.
C10_EndToEnd ==
    (pc = "done" /\ FailureFree) =>
        /\ cycles = rounds
        /\ Len(messages) = 2 + rounds + requested
        /\ Count(messages, "assistant") = rounds
        /\ Count(messages, "tool") = requested
        /\ answer = FinalText

\* C10 witness: two rounds, of one and of two calls, then the final answer
C10_Witness ==
    /\ pc = "done"
    /\ FailureFree
    /\ rounds = 2
    /\ requested = 3
    /\ Len(messages) = 7

Roles(msgs) == [i \in 1..Len(msgs) |-> msgs[i].role]

OneSystemTurnFirst ==
    /\ Len(messages) >= 1
    /\ messages[1].role = "system"
    /\ Count(messages, "system") = 1

RolesExtended ==
    /\ Len(messages') >= Len(messages)
    /\ SubSeq(Roles(messages'), 1, Len(messages)) = Roles(messages)

\* C11: in every state of a run, retries included, the transcript has exactly one
\* system turn, the first one, and from one state to the next the sequence of
\* turn roles only grows at its end: no turn is removed, reordered or re-roled.
C11_SystemFirstAppendOnly ==
    []OneSystemTurnFirst /\ [][RolesExtended]_vars

\* C11 witness: a run that was retried, grew by three rounds and had an old
\* snapshot stripped by pruning, with its turns all still there
C11_Witness ==
    /\ pc = "done"
    /\ attempt = 2
    /\ Len(messages) >= 8
    /\ OneSystemTurnFirst
    /\ \E i \in 1..Len(messages) :
          IsList(messages[i].content) /\ ~CarriesCandidate(messages[i])

\* The turn that opens the group tool turn i belongs to: the last turn before it
\* that is not a tool turn
GroupHead(msgs, i) ==
    CHOOSE a \in 1..(i - 1) :
        /\ msgs[a].role # "tool"
        /\ \A j \in (a + 1)..(i - 1) : msgs[j].role = "tool"

ToolGroupsMatch ==
    /\ \A i \in 1..Len(messages) :
          messages[i].role = "tool" =>
              LET a == GroupHead(messages, i)
                  k == i - a
                  calls == messages[a].tool_calls
              IN /\ messages[a].role = "assistant"
                 /\ k <= Len(calls)
                 /\ calls[k].id = messages[i].tool_call_id
                 /\ IsList(messages[i].content) <=> (k = Len(calls))
    /\ \A a \in 1..Len(messages) :
          messages[a].role = "assistant" =>
              \A k \in 1..Len(messages[a].tool_calls) :
                  a + k <= Len(messages) /\ messages[a + k].role = "tool"

DispatchAppends ==
    (pc = "dispatching" /\ pc' = "awaiting" /\ lastEvent' = "dispatched") =>
        LET n == Len(messages)
            calls == pending.tool_calls
        IN /\ Len(messages') = n + 1 + Len(calls)
           /\ SubSeq(messages', 1, n) = messages
           /\ messages'[n + 1] = pending
           /\ \A i \in 1..Len(calls) :
                 /\ messages'[n + 1 + i].role = "tool"
                 /\ messages'[n + 1 + i].tool_call_id = calls[i].id

\* C12: a completed dispatch step appends the requesting assistant turn and then
\* one tool turn per call, in call order, tagged with the call's identifier; so
\* every tool turn follows, through tool turns only, an assistant turn that lists
\* its identifier at the matching position, and only the last tool turn of a
\* group has list-structured content.
C12_AssistantThenToolTurns ==
    []ToolGroupsMatch /\ [][DispatchAppends]_vars

\* C12 witness: a group of two tool turns behind its assistant turn, the second
\* one list-structured, followed by a later group
C12_Witness ==
    /\ lastEvent = "dispatched"
    /\ Len(messages) >= 7
    /\ messages[3].role = "assistant"
    /\ Len(messages[3].tool_calls) = 2
    /\ messages[4].tool_call_id = messages[3].tool_calls[1].id
    /\ ~IsList(messages[4].content)
    /\ IsList(messages[5].content)
    /\ messages[6].role = "assistant"
    /\ ToolGroupsMatch

\* A backend call is made in this step
BackendCalled == backendCalls' = backendCalls + 1

\* C17: before every backend call, retries included, the whole transcript is
\* written to the debug file in place of what the file held, so at each backend
\* call the file holds the transcript being sent.
C17_FileHoldsSentTranscript ==
    /\ [](backendCalls > 0 => file = sent)
    /\ [][/\ BackendCalled => (file' = messages /\ sent' = messages)
          /\ ~BackendCalled => file' = file]_vars

\* C17 witness: the third backend call of a run, a retry after a failed call,
\* with a file that held a transcript of the same length before
C17_Witness ==
    /\ backendCalls = 3
    /\ prevEvent = "backend_failed"
    /\ lastEvent = "final"
    /\ Len(prevSent) = 5
    /\ Len(file) = 5
    /\ file = sent

\* The frame of pruning along the loop: every turn of the transcript stays, with
\* its role, identifier and status text, in every step of the run
StatusTextsKept ==
    [][/\ Len(messages') >= Len(messages)
       /\ \A i \in 1..Len(messages) : TurnFrame(messages[i], messages'[i])]_vars

\* The number of tool calls the latest response carries
CallsCarried == IF response.kind = "list" THEN Len(response.calls) ELSE 0

\* The backend answered in this step
Answered == lastEvent' \in {"final", "tool_calls"} /\ backendCalls' = backendCalls + 1

LeavesAwaiting ==
    Answered =>
        /\ pc = "awaiting"
        /\ pc' = "done" <=> (response'.kind # "list" \/ response'.calls = <<>>)
        /\ pc' = "dispatching" <=> (response'.kind = "list" /\ Len(response'.calls) >= 1)
        /\ pc' = "dispatching" => pending'.tool_calls = response'.calls
        /\ pc' = "done" => (deviceLog' = deviceLog /\ cycles' = cycles)

\* C20: the loop goes from awaiting the model to done exactly when the
\* assistant turn of the response carries no tool calls (none, or an empty
\* list) and to dispatching exactly when it carries at least one; the dispatcher
\* is never run on an empty batch, nothing touches the device in the iteration
\* that reaches done, and nothing follows done.
C20_DoneIffNoToolCalls ==
    /\ [](pc = "dispatching" => (CallsCarried >= 1 /\ pending.tool_calls # <<>>))
    /\ [](pc = "done" => CallsCarried = 0)
    /\ [][LeavesAwaiting]_vars
    /\ [][cycles' # cycles => (pc = "dispatching" /\ pending.tool_calls # <<>>)]_vars
    /\ [][pc # "done"]_vars

\* C20 witness: after a dispatch cycle, a response with an empty list of tool
\* calls ended the run
C20_Witness ==
    /\ pc = "done"
    /\ response = ToolCallsList(<<>>)
    /\ cycles = 1
    /\ deviceLog # <<>>
    /\ lastEvent = "final"

\* The tool call of dispatch cycle c at position i is recorded in the
\* transcript: its assistant turn and its tool turn are there
Recorded(c, i) ==
    /\ \E a \in 1..Len(messages) :
          /\ messages[a].role = "assistant"
          /\ \E k \in 1..Len(messages[a].tool_calls) :
                messages[a].tool_calls[k].id = CallId(c, i)
    /\ \E t \in 1..Len(messages) :
          messages[t].role = "tool" /\ messages[t].tool_call_id = CallId(c, i)

\* How many device commands were issued for the tool call with this identifier
ExecutedFor(id) ==
    Len(SelectSeq(deviceLog, LAMBDA e : e.call # 0 /\ CallId(e.cycle, e.call) = id))

\* C21: device history and transcript agree over any run, failures and retries
\* included: every device action executed belongs to a tool call recorded in
\* the transcript, and every tool call recorded in the transcript had its
\* device action executed exactly once.
C21_DeviceHistoryMatchesTranscript ==
    pc # "aborted" =>
        /\ \A n \in 1..Len(deviceLog) :
              deviceLog[n].call # 0 => Recorded(deviceLog[n].cycle, deviceLog[n].call)
        /\ \A t \in 1..Len(messages) :
              messages[t].role = "tool" => ExecutedFor(messages[t].tool_call_id) = 1

====
